---- MODULE Spec2Model ----
(***************************************************************************)
(* Model of the DataManagement timestamp readers.                          *)
(*                                                                         *)
(*  - ReadTimestamp / ReadTimestampFile (ReadTimestamp.cpp,                *)
(*    ReadTimestampFile.cpp): a line reader over a plain stdio stream,     *)
(*    with the search, rewind and payload operations.  Specification Spec. *)
(*  - DataFile (DataFile.cpp): the plain-file / 7z-pipe byte source with   *)
(*    its logical position Pos.  Specification SpecDF.                     *)
(***************************************************************************)
EXTENDS Integers, Sequences, FiniteSets, TLC

\* ------------------------------------------------------------------ bounds
\* Longest timestamp file, in lines.
MaxLines == 3
\* Bytes of a line that matches the timestamp prefix, newline included.
RecLineLen == 8
\* Bytes of a line that does not match the prefix, newline included: such a
\* line reaches beyond the offset where the payload of a matching line starts.
JunkLineLen == 9
\* Characters consumed by "%d.%d%*[ \t]" on a matching line (the %n value).
PrefixLen == 6

\* ------------------------------------------------------- program constants
\* ReadTimestamp::DefaultValidityTimeInMs
DefaultValidityTimeInMs == 33
\* The end-of-file grace of SearchDataForTimestamp, in ms.
EndOfFileGraceMs == 100

\* DataFile counts bytes in blocks of 64 KiB in this model: every length,
\* offset and element size of the byte source is a whole number of blocks.
\* DataFile::DropBufferSize, 1024*1024 bytes.
DropBufferSize == 16
\* The values of an int, 2^32 bytes, in blocks.
IntRange == 65536
\* errno values returned by DataFile::Seek.
EBADF == 9
EINVAL == 22

\* ------------------------------------------------------------------ bounds
\* Calls made on one DataFile object.
MaxCalls == 3

\* ------------------------------------------------------------------ values
\* A TimeB value: seconds and milliseconds (timezone and dstflag play no part
\* in any operation of the readers).
TimeB(t, m) == [time |-> t, millitm |-> m]

ZeroTime == TimeB(0, 0)

\* Timestamps the lines of a file are drawn from.
Stamps == {TimeB(0, 900), TimeB(1, 0), TimeB(1, 200)}

\* Timestamps requested from SearchDataForTimestamp.
Targets ==
  {TimeB(0, 950), TimeB(1, 0), TimeB(1, 20), TimeB(1, 100),
   TimeB(1, 200), TimeB(1, 400)}

\* ValidityTimeInMs arguments (unsigned short).
Tolerances == {DefaultValidityTimeInMs, 300}

\* A line of the file.  match says whether sscanf("%d.%d%*[ \t]%n") parses two
\* integers from it; data identifies the rest of the line.
RecLine(ts, d) == [match |-> TRUE, time |-> ts.time, millitm |-> ts.millitm, data |-> d]

JunkLine(d) == [match |-> FALSE, time |-> 0, millitm |-> 0, data |-> d]

\* The line buffer after LineBuffer[0] = '\0'.
EmptyLine == [match |-> FALSE, time |-> 0, millitm |-> 0, data |-> 0]

\* Millisecond value of a TimeB, used to state properties.
Ms(t) == t.time * 1000 + t.millitm

VARIABLES
  file,                           \* the timestamp file: a sequence of lines
  terminated,                     \* whether its last line ends with '\n'
  finOpen,                        \* fin != NULL
  finPos,                         \* file offset of fin's stream
  finEof,                         \* feof(fin)
  LineBuffer,
  EndOfTimestampPosition,
  CurrentTimestamp,
  CurrentTimestampIsInitialized,
  PreviousTimestamp,
  PreviousTimestampPosInFile,     \* <<[0], [1]>>
  DataBuffer,                     \* offset into LineBuffer, -1 for nullptr
  curLine,                        \* history: line CurrentTimestamp was parsed from
  linesRead,                      \* history: lines read since the last Reinit (2: two or more)
  run,                            \* history: the calls that led here
  last,                           \* history: the latest call and its result
  pre,                            \* history: the reader before the latest call
  \* A DataFile object and the files it is opened on.
  InternalFile,                   \* InternalFile != nullptr
  IsPipe,
  Pos,
  CompressedFileName,             \* whether a name is stored
  OpenCompressedVersionFirst,
  openMode,                       \* the mode InternalFile was opened in
  streamPos,                      \* file offset, or bytes taken from the pipe
  fault,                          \* the process died on a memory fault
  plainExists,                    \* the plain file is on disk
  plainLen,                       \* its length
  zExists,                        \* the .7z sibling is on disk
  zLen,                           \* length of what it decompresses to
  calls,                          \* history: calls made so far
  dlast,                          \* history: the latest call and its result
  dpre,                           \* history: the object before the latest call
  \* A ReadTimestampRawFile object: the reader above is its index, on fin,
  \* and the DataFile above is its raw source, fRaw.
  isRaw,                          \* the reader is a ReadTimestampRawFile
  finIsPipe,                      \* the timestamp file is read through a 7z pipe
  payload,                        \* per line: what sscanf reads from its payload
  Mode,
  NumberOfSubFrames,
  StartingFrame,
  CurrentIndex,
  FrameSize,
  FrameBuffer,                    \* [from, len]: the bytes of fRaw it holds
  glast,                          \* history: the latest GetFrame and what it did
  gpre,                           \* history: the object before the latest call
  \* A TimeB value handed to the operators of TimestampTools.h.
  TimeToModify,
  tlast,                          \* history: the latest operator call
  tpre,                           \* history: the value before the latest call
  \* A ConstantFpsTimestampFromFile object under construction over the reader.
  pc,                             \* where its constructor stands
  InitialTime,                    \* its member InitTime
  TimeStep,
  EndTime

rvars ==
  <<file, terminated, finOpen, finPos, finEof, LineBuffer, EndOfTimestampPosition,
    CurrentTimestamp, CurrentTimestampIsInitialized, PreviousTimestamp,
    PreviousTimestampPosInFile, DataBuffer, curLine, linesRead, run, last, pre>>

dvars ==
  <<InternalFile, IsPipe, Pos, CompressedFileName, OpenCompressedVersionFirst,
    openMode, streamPos, fault, plainExists, plainLen, zExists, zLen,
    calls, dlast, dpre>>

gvars ==
  <<isRaw, finIsPipe, payload, Mode, NumberOfSubFrames, StartingFrame, CurrentIndex,
    FrameSize, FrameBuffer, glast, gpre>>

tvars == <<TimeToModify, tlast, tpre>>

cvars == <<pc, InitialTime, TimeStep, EndTime>>

vars == <<rvars, dvars, gvars, tvars, cvars>>

\* ================================================================ DataFile
\* Lengths of what the .7z sibling decompresses to, in blocks.
StreamLens == {40, 70000}
\* Length of the plain file when it is on disk.
PlainLens == {40}
Modes == {"READ_MODE", "WRITE_MODE", "OTHER_MODE"}
Whences == {"SEEK_SET", "SEEK_CUR", "SEEK_END", "OTHER_WHENCE"}
\* Seek distances: behind, none, one block, more than DropBufferSize, 2^31
\* bytes, 2^32 bytes, 2^32 bytes and a block.
Offsets == {-1, 0, 1, 35, 32768, 65536, 65537}
ElementSizes == {0, 1, 3}
ElementCounts == {1, 2}

Min(a, b) == IF a < b THEN a ELSE b
Max(a, b) == IF a > b THEN a ELSE b

\* (int)x for an int64_t x.
ToInt(x) == ((x + IntRange \div 2) % IntRange) - IntRange \div 2

\* The DataFile object, with the streams and files it works on.
DF ==
  [InternalFile |-> InternalFile, IsPipe |-> IsPipe, Pos |-> Pos,
   CompressedFileName |-> CompressedFileName, openMode |-> openMode,
   streamPos |-> streamPos, fault |-> fault,
   plainExists |-> plainExists, plainLen |-> plainLen,
   zExists |-> zExists, zLen |-> zLen]

\* Length of the stream behind InternalFile.
StreamLen(d) == IF d.IsPipe THEN d.zLen ELSE d.plainLen

\* Bytes a read can still get from the stream.
Remaining(d) == Max(StreamLen(d) - d.streamPos, 0)

\* fread( ptr, size, nmemb, InternalFile ): full elements are counted, the
\* bytes of a partial element are consumed all the same.
fread(d, size, nmemb) ==
  IF d.openMode # "READ_MODE" \/ size = 0 \/ nmemb = 0
  THEN [d |-> d, n |-> 0]
  ELSE LET got == Min(size * nmemb, Remaining(d))
       IN [d |-> [d EXCEPT !.streamPos = d.streamPos + got],
           n |-> got \div size]

\* fwrite( ptr, size, nmemb, InternalFile ).
fwrite(d, size, nmemb) ==
  IF d.openMode # "WRITE_MODE" \/ d.IsPipe
  THEN [d |-> d, n |-> 0]
  ELSE [d |-> [d EXCEPT !.streamPos = d.streamPos + size * nmemb,
                        !.plainLen = Max(d.plainLen,
                                         d.streamPos + size * nmemb)],
        n |-> nmemb]

\* fseeko( InternalFile, offset, whence ) on a plain file.
fseeko(d, offset, whence) ==
  LET base == IF whence = "SEEK_SET" THEN 0
              ELSE IF whence = "SEEK_CUR" THEN d.streamPos
              ELSE d.plainLen
  IN IF whence \notin {"SEEK_SET", "SEEK_CUR", "SEEK_END"}
        \/ base + offset < 0
     THEN [d |-> d, ret |-> -1]
     ELSE [d |-> [d EXCEPT !.streamPos = base + offset], ret |-> 0]

\* Pipe::Open of the 7z command: a new forward-only stream.
PipeOpen(d) ==
  [d EXCEPT !.InternalFile = TRUE, !.openMode = "READ_MODE", !.streamPos = 0]

\* Pipe::Close.
PipeClose(d) == [d EXCEPT !.InternalFile = FALSE]

InternalOpen(d, eMode) ==
  IF eMode = "READ_MODE"
  THEN IF d.plainExists
       THEN [d |-> [d EXCEPT !.InternalFile = TRUE, !.openMode = eMode,
                             !.streamPos = 0, !.Pos = 0],
             ret |-> TRUE]
       ELSE [d |-> d, ret |-> FALSE]
  ELSE IF eMode = "WRITE_MODE"
  THEN [d |-> [d EXCEPT !.InternalFile = TRUE, !.openMode = eMode,
                        !.streamPos = 0, !.Pos = 0,
                        !.plainExists = TRUE, !.plainLen = 0],
        ret |-> TRUE]
  ELSE [d |-> [d EXCEPT !.Pos = -1], ret |-> FALSE]

InternalOpenCompressed(d, eMode) ==
  LET d1 == [d EXCEPT !.Pos = -1]
  IN IF eMode # "READ_MODE" THEN [d |-> d1, ret |-> FALSE]
     ELSE IF ~d1.zExists THEN [d |-> d1, ret |-> FALSE]
     ELSE [d |-> [PipeOpen([d1 EXCEPT !.CompressedFileName = TRUE])
                    EXCEPT !.IsPipe = TRUE, !.Pos = 0],
           ret |-> TRUE]

InternalOpenCompressedVersion(d, eMode) ==
  IF eMode # "READ_MODE"
  THEN [d |-> [d EXCEPT !.Pos = -1], ret |-> FALSE]
  ELSE InternalOpenCompressed(d, eMode)

\* An Open without the test on InternalFile.
OpenWithoutPriorCheck(d, named, eMode, first) ==
  IF ~named THEN [d |-> d, ret |-> FALSE]
  ELSE LET p == InternalOpen([d EXCEPT !.IsPipe = FALSE], eMode)
       IN IF p.ret THEN p ELSE InternalOpenCompressedVersion(p.d, eMode)

\* Open( Filename, eMode ); named is Filename != nullptr.
Open(d, named, eMode, first) ==
  IF d.InternalFile THEN [d |-> d, ret |-> FALSE]
  ELSE IF ~named THEN [d |-> d, ret |-> FALSE]
  ELSE LET d1 == [d EXCEPT !.IsPipe = FALSE]
       IN IF first
          THEN LET z == InternalOpenCompressedVersion(d1, eMode)
               IN IF z.ret THEN z ELSE InternalOpen(z.d, eMode)
          ELSE LET p == InternalOpen(d1, eMode)
               IN IF p.ret THEN p
                  ELSE InternalOpenCompressedVersion(p.d, eMode)

Read(d, size, nmemb) ==
  IF d.InternalFile
  THEN LET r == fread(d, size, nmemb)
       IN [d |-> [r.d EXCEPT !.Pos = d.Pos + size * r.n], ret |-> r.n]
  ELSE [d |-> d, ret |-> 0]

Write(d, size, nmemb) ==
  IF d.InternalFile
  THEN LET r == fwrite(d, size, nmemb)
       IN [d |-> [r.d EXCEPT !.Pos = d.Pos + size * r.n], ret |-> 0]
  ELSE [d |-> d, ret |-> 0]

DataFileClose(d) ==
  IF d.InternalFile
  THEN [d |-> [(IF ~d.IsPipe THEN [d EXCEPT !.InternalFile = FALSE]
                ELSE PipeClose(d)) EXCEPT !.IsPipe = FALSE],
        ret |-> 0]
  ELSE [d |-> d, ret |-> 0]

\* An outcome of Seek: the object after it, and the value returned unless
\* the process died inside the call.
Outcome(d, ret) == [d |-> d, ret |-> ret, returned |-> TRUE]
Died(d) == [d |-> [d EXCEPT !.fault = TRUE], ret |-> 0, returned |-> FALSE]

\* std::min( (int)DropBufferSize, (int)(offset-Pos) ): the size asked of
\* fread in one turn of the loop, the distance being cut to an int.
ChunkSize(pos, offset) == Min(DropBufferSize, ToInt(offset - pos))

\* The loop of Seek that eats data coming from the pipe. Successive turns
\* that each read a whole DropBuffer are taken together: there are as many
\* of them as DropBufferSize fits in (int)(offset-Pos) and in what the
\* stream still holds. A negative NbToRead becomes a size_t larger than any
\* stream: fread stores what the stream still holds in DropBuffer, and what
\* is stored beyond the end of DropBuffer has no defined effect.
RECURSIVE SeekLoop(_, _)
SeekLoop(d, offset) ==
  IF ~(d.Pos < offset) THEN {Outcome(d, 0)}
  ELSE LET NbToRead == ChunkSize(d.Pos, offset)
           whole == Min(ToInt(offset - d.Pos) \div DropBufferSize,
                        Remaining(d) \div DropBufferSize)
       IN IF NbToRead < 0
          THEN LET drained == [d EXCEPT !.streamPos = d.streamPos + Remaining(d)]
               IN IF Remaining(d) > DropBufferSize
                  THEN {Died(drained), Outcome(drained, EBADF)}
                  ELSE {Outcome(drained, EBADF)}
          ELSE IF NbToRead = DropBufferSize /\ whole > 1
          THEN SeekLoop([d EXCEPT
                           !.streamPos = d.streamPos + whole * DropBufferSize,
                           !.Pos = d.Pos + whole * DropBufferSize],
                        offset)
          ELSE LET r == fread(d, NbToRead, 1)
               IN IF r.n = 0 THEN {Outcome(r.d, EBADF)}
                  ELSE SeekLoop([r.d EXCEPT !.Pos = d.Pos + r.n * NbToRead],
                                offset)

\* Seek without the test that refuses to go backward in a pipe.
SeekWithoutBackwardTest(d, offset, whence) ==
  IF ~d.InternalFile THEN {Outcome(d, -1)}
  ELSE IF ~d.IsPipe
  THEN LET r == fseeko(d, offset, whence) IN {Outcome(r.d, r.ret)}
  ELSE IF whence \in {"SEEK_CUR", "SEEK_SET"}
  THEN SeekLoop(d, IF whence = "SEEK_CUR" THEN offset + d.Pos ELSE offset)
  ELSE IF whence = "SEEK_END" THEN {Outcome(d, EBADF)}
  ELSE {Outcome(d, EINVAL)}

\* Seek( offset, whence ): the set of its outcomes.
Seek(d, offset, whence) ==
  IF ~d.InternalFile THEN {Outcome(d, -1)}
  ELSE IF ~d.IsPipe
  THEN LET r == fseeko(d, offset, whence) IN {Outcome(r.d, r.ret)}
  ELSE IF whence \in {"SEEK_CUR", "SEEK_SET"}
  THEN LET target == IF whence = "SEEK_CUR" THEN offset + d.Pos ELSE offset
       IN IF target < d.Pos THEN {Outcome(d, EBADF)}
          ELSE SeekLoop(d, target)
  ELSE IF whence = "SEEK_END" THEN {Outcome(d, EBADF)}
  ELSE {Outcome(d, EINVAL)}

Tell(d) == IF ~d.InternalFile THEN -1 ELSE d.Pos

DataFileRewind(d) ==
  IF ~d.InternalFile THEN d
  ELSE IF d.IsPipe
  THEN LET d1 == DataFileClose(d).d
       IN IF ~d1.CompressedFileName THEN d1
          ELSE InternalOpenCompressed(d1, "READ_MODE").d
  ELSE [d EXCEPT !.streamPos = 0]

\* ------------------------------------------------------- DataFile actions
DCall(op, offset, whence, size, nmemb, ret, returned) ==
  [op |-> op, offset |-> offset, whence |-> whence, size |-> size,
   nmemb |-> nmemb, ret |-> ret, returned |-> returned]

\* What the properties need of the object as it was before the latest call.
DBefore ==
  [open |-> InternalFile, pipe |-> IsPipe, pos |-> Pos,
   streamPos |-> streamPos, tell |-> Tell(DF), remaining |-> Remaining(DF),
   named |-> CompressedFileName]

DInstall(d, c) ==
  /\ ~fault
  /\ calls < MaxCalls
  /\ calls' = calls + 1
  /\ InternalFile' = d.InternalFile
  /\ IsPipe' = d.IsPipe
  /\ Pos' = d.Pos
  /\ CompressedFileName' = d.CompressedFileName
  /\ openMode' = d.openMode
  /\ streamPos' = d.streamPos
  /\ fault' = d.fault
  /\ plainExists' = d.plainExists
  /\ plainLen' = d.plainLen
  /\ zExists' = d.zExists
  /\ zLen' = d.zLen
  /\ dlast' = c
  /\ dpre' = DBefore
  /\ UNCHANGED <<OpenCompressedVersionFirst, rvars, gvars, tvars, cvars>>

DoOpen ==
  \E named \in BOOLEAN, eMode \in Modes :
    \E r \in {Open(DF, named, eMode, OpenCompressedVersionFirst)} :
      DInstall(r.d, DCall("Open", 0, eMode, 0, 0, r.ret, TRUE))

DoDataFileClose ==
  \E r \in {DataFileClose(DF)} :
    DInstall(r.d, DCall("Close", 0, "", 0, 0, r.ret, TRUE))

DoRead ==
  \E size \in ElementSizes, nmemb \in ElementCounts :
    \E r \in {Read(DF, size, nmemb)} :
      DInstall(r.d, DCall("Read", 0, "", size, nmemb, r.ret, TRUE))

DoWrite ==
  \E size \in ElementSizes \ {0}, nmemb \in ElementCounts :
    \E r \in {Write(DF, size, nmemb)} :
      DInstall(r.d, DCall("Write", 0, "", size, nmemb, r.ret, TRUE))

DoSeek ==
  \E offset \in Offsets, whence \in Whences :
    \E r \in Seek(DF, offset, whence) :
      DInstall(r.d, DCall("Seek", offset, whence, 0, 0, r.ret, r.returned))

DoTell ==
  \E t \in {Tell(DF)} :
    DInstall(DF, DCall("Tell", 0, "", 0, 0, t, TRUE))

DoDataFileRewind ==
  \E d \in {DataFileRewind(DF)} :
    DInstall(d, DCall("Rewind", 0, "", 0, 0, 0, TRUE))

\* The object as DataFile::DataFile leaves it.
DataFileNew ==
  /\ InternalFile = FALSE
  /\ IsPipe = FALSE
  /\ Pos = -1
  /\ CompressedFileName = FALSE
  /\ openMode = ""
  /\ streamPos = 0
  /\ fault = FALSE
  /\ calls = 0
  /\ dlast = DCall("new", 0, "", 0, 0, 0, TRUE)

\* --------------------------------------------------------------- the file
NumLines == Len(file)

LineLen(i) ==
  (IF file[i].match THEN RecLineLen ELSE JunkLineLen)
    - (IF i = NumLines /\ ~terminated THEN 1 ELSE 0)

RECURSIVE LineStart(_)
LineStart(i) == IF i <= 1 THEN 0 ELSE LineStart(i - 1) + LineLen(i - 1)

FileSize == LineStart(NumLines + 1)

\* The line that starts at offset p.
LineAt(p) == CHOOSE i \in 1..NumLines : LineStart(i) = p

\* Indices of the lines that carry a timestamp, in file order.
Records == {i \in 1..NumLines : file[i].match}

StampOf(i) == TimeB(file[i].time, file[i].millitm)

NonDecreasing(f) ==
  \A i, j \in 1..Len(f) :
    (i < j /\ f[i].match /\ f[j].match) =>
      f[i].time * 1000 + f[i].millitm <= f[j].time * 1000 + f[j].millitm

Files ==
  {f \in UNION {[1..n -> {RecLine(ts, 0) : ts \in Stamps} \cup {JunkLine(0)}] : n \in 0..MaxLines} :
     NonDecreasing(f)}

\* Every line gets its own text after the prefix.
WithData(f) == [i \in 1..Len(f) |-> [f[i] EXCEPT !.data = i]]

\* ------------------------------------------------------------ reader state
Reader ==
  [open |-> finOpen, pipe |-> finIsPipe, pos |-> finPos, eof |-> finEof,
   LineBuffer |-> LineBuffer,
   EndOfTimestampPosition |-> EndOfTimestampPosition,
   CurrentTimestamp |-> CurrentTimestamp,
   CurrentTimestampIsInitialized |-> CurrentTimestampIsInitialized,
   PreviousTimestamp |-> PreviousTimestamp,
   PreviousTimestampPosInFile |-> PreviousTimestampPosInFile,
   DataBuffer |-> DataBuffer,
   curLine |-> curLine,
   linesRead |-> linesRead,
   raw |-> isRaw,
   NumberOfSubFrames |-> NumberOfSubFrames,
   StartingFrame |-> StartingFrame]

\* ------------------------------------------------------------------ stdio
\* fgets( LineBuffer, LineBufferSize-1, fin ): lines are shorter than the buffer.
fgets(s) ==
  IF s.pos >= FileSize
    THEN [ok |-> FALSE, s |-> [s EXCEPT !.eof = TRUE]]
    ELSE LET i == LineAt(s.pos)
         IN [ok |-> TRUE,
             s |-> [s EXCEPT !.pos = s.pos + LineLen(i),
                             !.eof = s.eof \/ (i = NumLines /\ ~terminated),
                             !.LineBuffer = file[i],
                             !.linesRead = IF s.linesRead >= 2 THEN 2
                                           ELSE s.linesRead + 1]]

\* fseek( fin, p, SEEK_SET ): it fails on a pipe and changes nothing.
fseek(s, p) == IF s.pipe THEN s ELSE [s EXCEPT !.pos = p, !.eof = FALSE]

\* ftell( fin ): -1 on a pipe.
ftell(s) == IF s.pipe THEN -1 ELSE s.pos

\* --------------------------------------------------------- TimestampTools
\* (int)((t1.time - t2.time)*1000 + (t1.millitm-t2.millitm)): the sum is
\* computed in time_t and cut to its low 32 bits, taken sixteen at a time.
CompareTime(t1, t2) ==
  LET dt == t1.time - t2.time
      low == (dt % 65536) * 1000 + (t1.millitm - t2.millitm)
      high == ((dt \div 65536) * 1000 + low \div 65536) % 65536
  IN (IF high >= 32768 THEN high - 65536 ELSE high) * 65536 + (low % 65536)

\* ---------------------------------------------------------- ReadTimestamp
\* DataFile::Open on the timestamp file, which exists as a plain file or as
\* its .7z sibling.
OpenFin(s) == [s EXCEPT !.open = TRUE, !.pos = 0, !.eof = FALSE]

Reinit(s) ==
  LET s1 == IF ~s.open THEN OpenFin(s) ELSE fseek(s, 0)
  IN [s1 EXCEPT !.PreviousTimestampPosInFile = <<-1, -1>>,
                !.CurrentTimestamp = ZeroTime,
                !.CurrentTimestampIsInitialized = FALSE,
                !.curLine = 0,
                !.linesRead = 0]

\* What sscanf reads from the payload of a line: the frame number it starts
\* with and the sub-frame count after the comma, -1 for what is not there.
Payload(frame, count) == [frame |-> frame, count |-> count]
Payloads == {Payload(-1, -1), Payload(0, 2), Payload(2, -1), Payload(2, 0), Payload(2, 1)}

\* fin as the DataFile it is: the reader reads it with fgets, never with
\* DataFile::Read, so its Pos is 0 as long as it is open.
FinDataFile(s) ==
  [InternalFile |-> s.open, IsPipe |-> s.pipe, Pos |-> 0,
   CompressedFileName |-> s.pipe, openMode |-> "READ_MODE",
   streamPos |-> s.pos, fault |-> FALSE,
   plainExists |-> ~s.pipe, plainLen |-> FileSize,
   zExists |-> s.pipe, zLen |-> FileSize]

\* fin.Seek( 0L, SEEK_SET ).
FinSeekStart(s) ==
  LET o == CHOOSE o \in Seek(FinDataFile(s), 0, "SEEK_SET") : TRUE
  IN [s EXCEPT !.pos = o.d.streamPos,
               !.eof = s.eof /\ (s.pipe \/ o.ret # 0)]

\* ReadTimestampRawFile::Reinit, the override of Reinit.
RawReinit(s) ==
  LET s1 == Reinit(s)
      s2 == [s1 EXCEPT !.NumberOfSubFrames = 0]
      r == fgets([s2 EXCEPT !.LineBuffer = EmptyLine])
      first == r.s.LineBuffer
  IN IF ~s1.open THEN s1
     ELSE IF ~r.ok THEN r.s
     ELSE IF ~(first.match /\ payload[first.data].frame # -1)
     THEN r.s
     ELSE [FinSeekStart(r.s) EXCEPT !.StartingFrame = payload[first.data].frame]

\* The call Reinit() inside a member function: the function is virtual, so
\* the object's class decides which one runs.
ThisReinit(s) == IF s.raw THEN RawReinit(s) ELSE Reinit(s)

Close(s) == IF s.open THEN [s EXCEPT !.open = FALSE] ELSE s

AddTimestampPos(s) ==
  IF s.open
    THEN [s EXCEPT !.PreviousTimestampPosInFile =
                     <<s.PreviousTimestampPosInFile[2], ftell(s)>>]
    ELSE s

\* The while( !feof(fin) ) loop of GetNextTimestamp.
RECURSIVE GetNextLoop(_)
GetNextLoop(s) ==
  IF s.eof
    THEN [s |-> s, ret |-> FALSE]
    ELSE LET g == fgets(AddTimestampPos(s))
         IN IF ~g.ok
              THEN [s |-> g.s, ret |-> FALSE]
              ELSE LET s2 == [g.s EXCEPT !.PreviousTimestamp = g.s.CurrentTimestamp]
                   IN IF ~s2.LineBuffer.match
                        THEN GetNextLoop(s2)
                        ELSE [s |-> [s2 EXCEPT
                                       !.CurrentTimestamp =
                                         TimeB(s2.LineBuffer.time, s2.LineBuffer.millitm),
                                       !.EndOfTimestampPosition = PrefixLen,
                                       !.CurrentTimestampIsInitialized = TRUE,
                                       !.curLine = LineAt(s.pos)],
                              ret |-> TRUE]

GetNextTimestamp(s) ==
  LET s1 == IF ~s.open THEN ThisReinit(s) ELSE s
  IN IF s1.eof
       THEN [s |-> s1, ret |-> s1.CurrentTimestampIsInitialized]
       ELSE GetNextLoop(s1)

Rewind(s) ==
  IF s.open /\ s.PreviousTimestampPosInFile[1] # -1
    THEN [s |-> [fseek(s, s.PreviousTimestampPosInFile[1]) EXCEPT
                   !.PreviousTimestampPosInFile = <<-1, -1>>,
                   !.PreviousTimestamp = ZeroTime],
          ret |-> TRUE]
    ELSE [s |-> s, ret |-> FALSE]

GetPreviousTimestamp(s) ==
  LET r == Rewind(s)
  IN IF r.ret THEN GetNextTimestamp(r.s) ELSE [s |-> r.s, ret |-> FALSE]

\* The while( CurrentTimestampIsInitialized == true ) loop of the search.
RECURSIVE SearchLoop(_, _, _)
SearchLoop(s, req, ValidityTime) ==
  IF ~s.CurrentTimestampIsInitialized
    THEN [s |-> s, ret |-> FALSE]
    ELSE LET Comp == CompareTime(req, s.CurrentTimestamp)
         IN IF Comp > 0
              THEN IF s.eof
                     THEN [s |-> s, ret |-> Comp <= EndOfFileGraceMs]
                     ELSE SearchLoop(
                            GetNextTimestamp(
                              [s EXCEPT !.LineBuffer = EmptyLine,
                                        !.EndOfTimestampPosition = 0,
                                        !.CurrentTimestampIsInitialized = FALSE]).s,
                            req, ValidityTime)
              ELSE IF Comp < 0
                     THEN IF s.eof
                            THEN [s |-> s, ret |-> FALSE]
                            ELSE IF s.PreviousTimestamp.time # 0
                                      /\ CompareTime(req, s.PreviousTimestamp) > ValidityTime
                                   THEN [s |-> GetNextTimestamp(Rewind(s).s).s, ret |-> TRUE]
                                   ELSE [s |-> s, ret |-> FALSE]
                     ELSE [s |-> s, ret |-> TRUE]

\* A search that gives up its current record when it returns false.
SearchForgetsOnMiss(s, req, ValidityTimeInMs) ==
  LET s1 == IF ~s.open THEN ThisReinit(s) ELSE s
      r == IF s1.eof
             THEN [s |-> s1, ret |-> s1.CurrentTimestampIsInitialized]
             ELSE SearchLoop(
                    IF ~s1.CurrentTimestampIsInitialized THEN GetNextTimestamp(s1).s ELSE s1,
                    req, -ValidityTimeInMs)
  IN IF r.ret THEN r
     ELSE [s |-> [r.s EXCEPT !.LineBuffer = EmptyLine,
                             !.EndOfTimestampPosition = 0,
                             !.CurrentTimestampIsInitialized = FALSE],
           ret |-> FALSE]

\* A search without the test feof( fin ) at its start.
SearchWithoutEofTest(s, req, ValidityTimeInMs) ==
  LET s1 == IF ~s.open THEN ThisReinit(s) ELSE s
  IN SearchLoop(
       IF ~s1.CurrentTimestampIsInitialized THEN GetNextTimestamp(s1).s ELSE s1,
       req, -ValidityTimeInMs)

SearchDataForTimestamp(s, req, ValidityTimeInMs) ==
  LET s1 == IF ~s.open THEN ThisReinit(s) ELSE s
  IN IF s1.eof
       THEN [s |-> s1, ret |-> s1.CurrentTimestampIsInitialized]
       ELSE SearchLoop(
              IF ~s1.CurrentTimestampIsInitialized THEN GetNextTimestamp(s1).s ELSE s1,
              req, -ValidityTimeInMs)

\* ------------------------------------------------------ ReadTimestampFile
GetDataForTimestamp(s, req, ValidityTimeInMs) ==
  LET r == SearchDataForTimestamp(s, req, ValidityTimeInMs)
  IN IF r.ret
       THEN [s |-> [r.s EXCEPT !.DataBuffer = r.s.EndOfTimestampPosition], ret |-> TRUE]
       ELSE [s |-> r.s, ret |-> FALSE]

\* ----------------------------------------------------------------- actions
NoTime == TimeB(-1, 0)

Call(op, t, v, r) == [op |-> op, target |-> t, tol |-> v, ret |-> r]

\* What the calls so far amount to:
\*   scan   - GetNextTimestamp calls made, and nothing else, since construction or
\*            the last Reinit (-1 once another call came in between, or once the
\*            count passed the end of the file by more than one);
\*   nexts  - successive GetNextTimestamp calls that returned true, ending with
\*            the latest call (at most 2 are counted);
\*   older  - the line the first of those two calls yielded;
\*   rewound - the latest call is a Rewind that came right after two such calls;
\*   rewoundTwice - the latest call is a Rewind that came right after such a Rewind;
\*   again  - the latest call repeats, with the same arguments, a search that
\*            had just returned true;
\*   rawScan - GetNextTimestamp calls made, and nothing else, since the last
\*            ReadTimestampRawFile::Reinit (-1 when there was none, or once
\*            another call came in between);
\*   forward - only GetNextTimestamp calls and searches were made since
\*            construction or the last Reinit;
\*   back   - the latest call is a GetPreviousTimestamp that came right after
\*            two successive GetNextTimestamp calls that returned true;
\*   backNext - the latest call is a GetNextTimestamp that came right after
\*            such a GetPreviousTimestamp, which returned true;
\*   newer  - the line the second of those two calls had yielded;
\*   reopened - scan counts from a Reinit that found the file already open.
RunAfter(c) ==
  [scan |-> IF c.op = "Reinit" THEN 0
            ELSE IF c.op = "GetNextTimestamp" /\ run.scan >= 0 /\ run.scan <= NumLines
                   THEN run.scan + 1
                   ELSE -1,
   nexts |-> IF c.op = "GetNextTimestamp" /\ c.ret
               THEN (IF run.nexts >= 1 THEN 2 ELSE 1)
               ELSE 0,
   older |-> IF c.op = "GetNextTimestamp" /\ c.ret /\ run.nexts >= 1 THEN curLine
             ELSE IF c.op \in {"Rewind", "GetPreviousTimestamp"} /\ run.nexts = 2
                    THEN run.older
             ELSE IF c.op = "GetNextTimestamp" /\ run.back THEN run.older
             ELSE 0,
   rewound |-> c.op = "Rewind" /\ run.nexts = 2,
   rewoundTwice |-> c.op = "Rewind" /\ run.rewound,
   again |-> c.op = "GetDataForTimestamp"
               /\ last.op = c.op /\ last.ret
               /\ last.target = c.target /\ last.tol = c.tol,
   rawScan |-> IF c.op = "RawReinit" THEN 0
               ELSE IF c.op = "GetNextTimestamp" /\ run.rawScan >= 0
                                                /\ run.rawScan <= NumLines
                      THEN run.rawScan + 1
                      ELSE -1,
   forward |-> \/ c.op = "Reinit"
               \/ /\ run.forward
                  /\ c.op \in {"GetNextTimestamp", "GetDataForTimestamp",
                               "GetCurrentData", "GetFrame"},
   back |-> c.op = "GetPreviousTimestamp" /\ run.nexts = 2,
   backNext |-> c.op = "GetNextTimestamp" /\ run.back /\ last.ret,
   newer |-> IF c.op = "GetPreviousTimestamp" /\ run.nexts = 2 THEN curLine
             ELSE IF c.op = "GetNextTimestamp" /\ run.back THEN run.newer
             ELSE 0,
   reopened |-> IF c.op = "Reinit" THEN finOpen
                ELSE c.op = "GetNextTimestamp" /\ run.reopened /\ run.scan >= 0]

\* What the properties need of the reader as it was before the latest call.
Before ==
  [fresh |-> run.scan = 0,
   open |-> finOpen,
   eof |-> finEof,
   line |-> curLine,
   init |-> CurrentTimestampIsInitialized,
   cur |-> CurrentTimestamp,
   buf |-> LineBuffer]

InstallReader(s, c) ==
  /\ finOpen' = s.open
  /\ finPos' = s.pos
  /\ finEof' = s.eof
  /\ LineBuffer' = s.LineBuffer
  /\ EndOfTimestampPosition' = s.EndOfTimestampPosition
  /\ CurrentTimestamp' = s.CurrentTimestamp
  /\ CurrentTimestampIsInitialized' = s.CurrentTimestampIsInitialized
  /\ PreviousTimestamp' = s.PreviousTimestamp
  /\ PreviousTimestampPosInFile' = s.PreviousTimestampPosInFile
  /\ DataBuffer' = s.DataBuffer
  /\ curLine' = s.curLine
  /\ linesRead' = s.linesRead
  /\ NumberOfSubFrames' = s.NumberOfSubFrames
  /\ StartingFrame' = s.StartingFrame
  /\ last' = c
  /\ run' = RunAfter(c)
  /\ pre' = Before
  /\ UNCHANGED <<file, terminated, isRaw, finIsPipe, payload>>

\* A call on the reader alone.
Install(s, c) ==
  /\ InstallReader(s, c)
  /\ UNCHANGED <<dvars, Mode, CurrentIndex, FrameSize, FrameBuffer, glast, gpre,
                 tvars, cvars>>

DoReinit ==
  \E s \in {Reinit(Reader)} : Install(s, Call("Reinit", NoTime, 0, TRUE))

DoClose ==
  \E s \in {Close(Reader)} : Install(s, Call("Close", NoTime, 0, TRUE))

DoGetNextTimestamp ==
  \E r \in {GetNextTimestamp(Reader)} :
    Install(r.s, Call("GetNextTimestamp", NoTime, 0, r.ret))

DoGetPreviousTimestamp ==
  \E r \in {GetPreviousTimestamp(Reader)} :
    Install(r.s, Call("GetPreviousTimestamp", NoTime, 0, r.ret))

DoRewind ==
  \E r \in {Rewind(Reader)} :
    Install(r.s, Call("Rewind", NoTime, 0, r.ret))

DoGetDataForTimestamp ==
  \E t \in Targets, v \in Tolerances :
    \E r \in {GetDataForTimestamp(Reader, t, v)} :
      Install(r.s, Call("GetDataForTimestamp", t, v, r.ret))

\* ==================================================== ReadTimestampRawFile
ReadingModes == {"SimpleFrameMode", "SubFramesMode"}

\* SizeOfFrame arguments of the constructor, in blocks.
FrameSizes == {3}
\* WantedIndex arguments of GetFrame.
FrameIndexes == {0, 1, 2, 14, 21846}

RawReader ==
  [Mode |-> Mode, NumberOfSubFrames |-> NumberOfSubFrames,
   StartingFrame |-> StartingFrame, CurrentIndex |-> CurrentIndex,
   FrameSize |-> FrameSize, FrameBuffer |-> FrameBuffer]

\* What DataBuffer may show: the payload of the line in LineBuffer when that
\* line starts with a timestamp; otherwise DataBuffer points into the text
\* of a line without timestamp, or into what earlier lines left in the buffer.
PayloadAt(s) ==
  IF s.LineBuffer.match THEN {payload[s.LineBuffer.data]} ELSE Payloads

ReadTimestampFileGetCurrentData(s, ValidityTimeInMs) ==
  IF ~s.CurrentTimestampIsInitialized THEN [s |-> s, ret |-> FALSE]
  ELSE GetDataForTimestamp(s, s.CurrentTimestamp, ValidityTimeInMs)

\* An outcome of GetFrame: the raw source and the object after it, the value
\* returned unless the process died inside the call, and what the call did
\* on the raw source: the offset it sought (-1: no Seek) and the stream
\* position it read at (-1: no Read).
FrameOutcome(d, g, ret, returned, sought, readAt) ==
  [d |-> d, g |-> g, ret |-> ret, returned |-> returned,
   sought |-> sought, readAt |-> readAt]

\* fRaw.Read( FrameBuffer, LoadSize, 1 ): the buffer holds what was read,
\* a whole load or the start of one.
ReadFrame(d, g, LoadSize) ==
  LET r == Read(d, LoadSize, 1)
  IN [d |-> r.d,
      g |-> IF r.d.streamPos > d.streamPos
              THEN [g EXCEPT !.FrameBuffer =
                               [from |-> d.streamPos,
                                len |-> r.d.streamPos - d.streamPos]]
              ELSE g,
      ret |-> r.ret]

\* GetFrame when Index == CurrentIndex: read on from where fRaw stands.
GetFrameNext(d, g, Index, LoadSize) ==
  LET r == ReadFrame(d, g, LoadSize)
  IN IF r.ret # 1
     THEN {FrameOutcome(r.d, r.g, FALSE, TRUE, -1, d.streamPos)}
     ELSE {FrameOutcome(r.d,
                        [r.g EXCEPT !.CurrentIndex =
                                      g.CurrentIndex + g.NumberOfSubFrames],
                        TRUE, TRUE, -1, d.streamPos)}

\* GetFrame otherwise: fRaw.Seek( NewPos, SEEK_SET ), then read.
GetFrameSeek(d, g, Index, LoadSize) ==
  LET NewPos == Index * g.FrameSize
  IN UNION {
       IF ~o.returned
       THEN {FrameOutcome(o.d, g, FALSE, FALSE, NewPos, -1)}
       ELSE IF o.ret # 0
       THEN {FrameOutcome(o.d, g, FALSE, TRUE, NewPos, -1)}
       ELSE LET r == ReadFrame(o.d, g, LoadSize)
            IN IF r.ret # 1
               THEN {FrameOutcome(r.d, r.g, FALSE, TRUE, NewPos, o.d.streamPos)}
               ELSE {FrameOutcome(r.d,
                                  [r.g EXCEPT !.CurrentIndex =
                                     Index + g.NumberOfSubFrames],
                                  TRUE, TRUE, NewPos, o.d.streamPos)}
       : o \in Seek(d, NewPos, "SEEK_SET")}

\* A GetFrame without the test Index == CurrentIndex.
GetFrameAlwaysSeek(d, g, Index, LoadSize) == GetFrameSeek(d, g, Index, LoadSize)

\* GetFrame from the point where fRaw is open and the load size is known.
GetFrameLoad(d, g, Index, LoadSize) ==
  IF Index = g.CurrentIndex
  THEN GetFrameNext(d, g, Index, LoadSize)
  ELSE GetFrameSeek(d, g, Index, LoadSize)

\* A GetFrame that loads a count of 0 like any other count.
GetFrameWithoutEmptyLoad(d, s, g, WantedIndex, p) ==
  LET Index == WantedIndex - g.StartingFrame
      g0 == [g EXCEPT !.NumberOfSubFrames = 0]
      o == IF d.InternalFile THEN [d |-> d, ret |-> TRUE]
           ELSE Open(d, TRUE, "READ_MODE", OpenCompressedVersionFirst)
  IN IF ~o.ret THEN {FrameOutcome(o.d, g0, FALSE, TRUE, -1, -1)}
     ELSE IF g.Mode = "SubFramesMode"
     THEN IF s.DataBuffer = -1
          THEN {FrameOutcome([o.d EXCEPT !.fault = TRUE], g0, FALSE, FALSE, -1, -1)}
          ELSE IF p.frame = -1 \/ p.count = -1
          THEN {FrameOutcome(o.d, g0, FALSE, TRUE, -1, -1)}
          ELSE GetFrameLoad(o.d, [g EXCEPT !.NumberOfSubFrames = p.count],
                            Index, g.FrameSize * p.count)
     ELSE GetFrameLoad(o.d, [g EXCEPT !.NumberOfSubFrames = 1],
                       Index, g.FrameSize)

\* GetFrame( WantedIndex ) with the payload p behind DataBuffer.
GetFrameWith(d, s, g, WantedIndex, p) ==
  LET Index == WantedIndex - g.StartingFrame
      g0 == [g EXCEPT !.NumberOfSubFrames = 0]
      o == IF d.InternalFile THEN [d |-> d, ret |-> TRUE]
           ELSE Open(d, TRUE, "READ_MODE", OpenCompressedVersionFirst)
  IN IF ~o.ret THEN {FrameOutcome(o.d, g0, FALSE, TRUE, -1, -1)}
     ELSE IF g.Mode = "SubFramesMode"
     THEN IF s.DataBuffer = -1
          THEN {FrameOutcome([o.d EXCEPT !.fault = TRUE], g0, FALSE, FALSE, -1, -1)}
          ELSE IF p.frame = -1 \/ p.count = -1
          THEN {FrameOutcome(o.d, g0, FALSE, TRUE, -1, -1)}
          ELSE IF p.count = 0
          THEN {FrameOutcome(o.d, g0, TRUE, TRUE, -1, -1)}
          ELSE GetFrameLoad(o.d, [g EXCEPT !.NumberOfSubFrames = p.count],
                            Index, g.FrameSize * p.count)
     ELSE GetFrameLoad(o.d, [g EXCEPT !.NumberOfSubFrames = 1],
                       Index, g.FrameSize)

GetFrame(d, s, g, WantedIndex) ==
  UNION {GetFrameWith(d, s, g, WantedIndex, p) : p \in PayloadAt(s)}

\* --------------------------------------------- ReadTimestampRawFile actions
\* The latest GetFrame: its argument, the physical index it computed, its
\* result and what it did on the raw source, and
\*   follows - it came right after a GetFrame that returned true for the
\*             index before this one;
\*   failedBefore - an earlier GetFrame failed on a short read or on a
\*             failed Seek.
FrameCall(WantedIndex, o) ==
  [WantedIndex |-> WantedIndex,
   Index |-> WantedIndex - StartingFrame,
   ret |-> o.ret, returned |-> o.returned,
   sought |-> o.sought, readAt |-> o.readAt,
   follows |-> last.op = "GetFrame" /\ last.ret
                 /\ glast.WantedIndex + 1 = WantedIndex,
   failedBefore |-> glast.failedBefore
                      \/ (glast.returned /\ ~glast.ret
                            /\ (glast.sought # -1 \/ glast.readAt # -1))]

\* What the properties need of the object as it was before the latest call.
GBefore ==
  [CurrentIndex |-> CurrentIndex, open |-> InternalFile,
   streamPos |-> streamPos, FrameBuffer |-> FrameBuffer]

DoRawReinit ==
  /\ isRaw
  /\ \E s \in {RawReinit(Reader)} : Install(s, Call("RawReinit", NoTime, 0, TRUE))

DoGetCurrentData ==
  \E r \in {ReadTimestampFileGetCurrentData(Reader, DefaultValidityTimeInMs)} :
    Install(r.s, Call("GetCurrentData", NoTime, DefaultValidityTimeInMs, r.ret))

DoGetFrame ==
  \E WantedIndex \in FrameIndexes :
    \E o \in GetFrame(DF, Reader, RawReader, WantedIndex) :
      /\ calls < MaxCalls
      /\ calls' = calls + 1
      /\ InstallReader([Reader EXCEPT !.NumberOfSubFrames = o.g.NumberOfSubFrames],
                       Call("GetFrame", NoTime, 0, o.ret))
      /\ InternalFile' = o.d.InternalFile
      /\ IsPipe' = o.d.IsPipe
      /\ Pos' = o.d.Pos
      /\ CompressedFileName' = o.d.CompressedFileName
      /\ openMode' = o.d.openMode
      /\ streamPos' = o.d.streamPos
      /\ fault' = o.d.fault
      /\ CurrentIndex' = o.g.CurrentIndex
      /\ FrameBuffer' = o.g.FrameBuffer
      /\ glast' = FrameCall(WantedIndex, o)
      /\ gpre' = GBefore
      /\ UNCHANGED <<OpenCompressedVersionFirst, plainExists, plainLen, zExists,
                     zLen, dlast, dpre, Mode, FrameSize, tvars, cvars>>

\* The object as ReadTimestampRawFile::ReadTimestampRawFile leaves it.
RawNew ==
  /\ NumberOfSubFrames = 0
  /\ StartingFrame = 0
  /\ CurrentIndex = 0
  /\ FrameBuffer = [from |-> 0, len |-> 0]
  /\ glast = [WantedIndex |-> -1, Index |-> -1, ret |-> FALSE, returned |-> TRUE,
              sought |-> -1, readAt |-> -1, follows |-> FALSE,
              failedBefore |-> FALSE]
  /\ gpre = GBefore

\* ------------------------------------------- properties of GetFrame
\* The bytes of the raw source that a load of n frames from physical index i
\* is made of.
FrameBytes(i, n) == [from |-> i * FrameSize, len |-> n * FrameSize]

\* The length of the raw source that fRaw is open on.
RawLen == IF IsPipe THEN zLen ELSE plainLen

\* C13: in single-frame mode, whenever GetFrame(r) returns true, the frame
\* buffer holds the bytes [(r - StartingFrame) * FrameSize,
\* (r - StartingFrame + 1) * FrameSize) of the raw source, whatever GetFrame
\* calls, successful or failed, came before.
C13_FrameIndexing ==
  (last.op = "GetFrame" /\ last.ret /\ Mode = "SimpleFrameMode")
    => FrameBuffer = FrameBytes(glast.Index, 1)

\* The latest call was a GetFrame on an open raw source whose physical index
\* is not the expected next one.
OffSequence ==
  /\ last.op = "GetFrame"
  /\ glast.returned
  /\ InternalFile
  /\ glast.Index # gpre.CurrentIndex

\* The fast path and the seek path of GetFrame.
FastPath ==
  /\ (last.op = "GetFrame" /\ last.ret /\ glast.follows) => glast.sought = -1
  /\ OffSequence => glast.sought = glast.Index * FrameSize

AfterFailure ==
  /\ last.op = "GetFrame"
  /\ glast.failedBefore
  /\ InternalFile
  /\ NumberOfSubFrames >= 1
  /\ glast.Index >= 0
  /\ (glast.Index + NumberOfSubFrames) * FrameSize <= RawLen

\* C20: a failed GetFrame (short read or failed seek) does not spoil later
\* calls: a later GetFrame(r) whose bytes are fully present returns true and
\* loads frame r.
C20_FailureScopedToCall ==
  AfterFailure
    => (last.ret /\ FrameBuffer = FrameBytes(glast.Index, NumberOfSubFrames))

\* The latest call was a GetFrame in sub-frames mode on a record whose
\* payload gives a frame number and a sub-frame count of 0.
EmptyLoadAsked ==
  /\ last.op = "GetFrame"
  /\ Mode = "SubFramesMode"
  /\ DataBuffer # -1
  /\ LineBuffer.match
  /\ payload[LineBuffer.data].frame # -1
  /\ payload[LineBuffer.data].count = 0

\* The latest GetFrame did nothing on the raw source and left the expected
\* next index alone.
NothingLoaded ==
  /\ glast.returned
  /\ NumberOfSubFrames = 0
  /\ glast.sought = -1
  /\ glast.readAt = -1
  /\ streamPos = gpre.streamPos
  /\ CurrentIndex = gpre.CurrentIndex

\* C29 (as stated): in sub-frames mode GetFrame on a record whose sub-frame
\* count is 0 returns true as an empty load: NumberOfSubFrames is 0, neither
\* a Seek nor a Read is made on the raw source and the expected next index
\* is unchanged.
C29_EmptyLoad == EmptyLoadAsked => (last.ret /\ NothingLoaded)

\* C29 (amended): it does so when the raw source is open or can be opened;
\* when it cannot be opened GetFrame returns false, with the same effects.
C29_EmptyLoadOnOpenSource ==
  EmptyLoadAsked => (last.ret = InternalFile /\ NothingLoaded)

\* An empty load for an index other than the expected next one.
C29_Witness ==
  /\ EmptyLoadAsked
  /\ InternalFile
  /\ last.ret
  /\ glast.Index # gpre.CurrentIndex
  /\ NothingLoaded

\* C31: between GetFrame calls, whenever the raw source is open, the
\* expected next index times FrameSize is the position the raw source reads
\* at, after the calls that returned true and after those that failed on a
\* Seek or on a short read.
C31_ExpectedIndexIsPosition ==
  (InternalFile /\ ~fault) => CurrentIndex * FrameSize = streamPos

\* The same after the calls that returned true alone, and before any call.
ExpectedIndexAfterSuccess ==
  (InternalFile /\ ~fault /\ last.op = "GetFrame" /\ last.ret /\ ~glast.failedBefore)
    => CurrentIndex * FrameSize = streamPos

\* ======================================================== TimestampTools.h
IntMin == -2147483647 - 1
IntMax == 2147483647

\* a / b and a % b of C on ints, b > 0: the quotient is cut towards zero.
Quot(a, b) == IF a < 0 /\ a % b # 0 THEN (a \div b) + 1 ELSE a \div b

Rem(a, b) == IF a < 0 /\ a % b # 0 THEN (a % b) - b ELSE a % b

\* A value stored into the unsigned short millitm.
UShort(x) == x % 65536

\* -Milliseconds where it is defined.
Negate(m) == 0 - m

\* operator+= once Milliseconds < 0 is excluded.
PlusBody(t, Milliseconds) ==
  LET SecondsToAdd == Quot(Milliseconds, 1000)
      MillisecondsToAdd == Rem(Milliseconds, 1000)
      millitm == UShort(t.millitm + MillisecondsToAdd)
  IN IF millitm >= 1000
       THEN TimeB(t.time + SecondsToAdd + millitm \div 1000, millitm % 1000)
       ELSE TimeB(t.time + SecondsToAdd, millitm)

\* operator-= once Milliseconds < 0 is excluded.
MinusBody(t, Milliseconds) ==
  LET SecondsToMin == Quot(Milliseconds, 1000)
      MillisecondsToMin == Rem(Milliseconds, 1000)
  IN IF MillisecondsToMin > t.millitm
       THEN LET tmp == t.millitm - MillisecondsToMin
            IN TimeB(t.time - (SecondsToMin + 1), UShort(1000 + Rem(tmp, 1000)))
       ELSE TimeB(t.time - SecondsToMin, UShort(t.millitm - MillisecondsToMin))

TimeOutcome(t, returned) == [t |-> t, returned |-> returned]

\* -Milliseconds overflows for the least int. The builds either negate it to
\* itself and let the two operators call one another without end, or run the
\* body of the other operator on it as it is.
Overflowed(t, body) == {TimeOutcome(t, FALSE), TimeOutcome(body, TRUE)}

\* An operator+= that hands negative amounts to its own body.
PlusAssignUnsigned(t, Milliseconds) == {TimeOutcome(PlusBody(t, Milliseconds), TRUE)}

\* operator+=( TimeToModify, Milliseconds )
PlusAssign(t, Milliseconds) ==
  IF Milliseconds < 0
    THEN IF Milliseconds = IntMin
           THEN Overflowed(t, MinusBody(t, Milliseconds))
           ELSE {TimeOutcome(MinusBody(t, Negate(Milliseconds)), TRUE)}
    ELSE {TimeOutcome(PlusBody(t, Milliseconds), TRUE)}

\* operator-=( TimeToModify, Milliseconds )
MinusAssign(t, Milliseconds) ==
  IF Milliseconds < 0
    THEN IF Milliseconds = IntMin
           THEN Overflowed(t, PlusBody(t, Milliseconds))
           ELSE {TimeOutcome(PlusBody(t, Negate(Milliseconds)), TRUE)}
    ELSE {TimeOutcome(MinusBody(t, Milliseconds), TRUE)}

\* Normalized values and amounts the operators are called with.
NormalTimes ==
  {TimeB(s, m) : s \in {0, 1, 2147483, 2147484}, m \in {0, 1, 647, 648, 900, 999}}

Millis ==
  {IntMin, -2147483647, -2001, -1000, -999, -1, 0, 1, 200, 999, 1000, 2001, IntMax}

MaxTimeCalls == 2

TimeCall(op, m, other, ret, returned) ==
  [op |-> op, m |-> m, other |-> other, ret |-> ret, returned |-> returned,
   n |-> tlast.n + 1]

TimeInstall(t, c) ==
  /\ tlast.returned
  /\ tlast.n < MaxTimeCalls
  /\ TimeToModify' = t
  /\ tlast' = c
  /\ tpre' = TimeToModify
  /\ UNCHANGED <<rvars, dvars, gvars, cvars>>

DoPlusAssign ==
  \E m \in Millis :
    \E o \in PlusAssign(TimeToModify, m) :
      TimeInstall(o.t, TimeCall("+=", m, ZeroTime, 0, o.returned))

DoMinusAssign ==
  \E m \in Millis :
    \E o \in MinusAssign(TimeToModify, m) :
      TimeInstall(o.t, TimeCall("-=", m, ZeroTime, 0, o.returned))

DoCompareTime ==
  \E t2 \in NormalTimes :
    \E ret \in {CompareTime(TimeToModify, t2)} :
      TimeInstall(TimeToModify, TimeCall("CompareTime", 0, t2, ret, TRUE))

TimeNew ==
  /\ tlast = [op |-> "new", m |-> 0, other |-> ZeroTime, ret |-> 0,
              returned |-> TRUE, n |-> 0]
  /\ tpre = TimeToModify

\* ------------------------------------ properties of the TimeB operators
Normalized(t) == t.millitm >= 0 /\ t.millitm < 1000

\* t moved by m milliseconds, m = q * 1000 + r with 0 <= r < 1000.
Moved(t, q, r) ==
  TimeB(t.time + q + ((t.millitm + r) \div 1000), (t.millitm + r) % 1000)

MovedBack(t, q, r) ==
  TimeB((t.time - q) + ((t.millitm - r) \div 1000), (t.millitm - r) % 1000)

\* C16: for a normalized t and every int m, positive, zero or negative,
\* t += m and t -= m return with millitm in [0, 1000) and with the time
\* moved by exactly +m and -m milliseconds.
C16_MillisecondsNormalization ==
  /\ (tlast.op = "+=" /\ Normalized(tpre))
       => (/\ tlast.returned
           /\ TimeToModify = Moved(tpre, tlast.m \div 1000, tlast.m % 1000))
  /\ (tlast.op = "-=" /\ Normalized(tpre))
       => (/\ tlast.returned
           /\ TimeToModify = MovedBack(tpre, tlast.m \div 1000, tlast.m % 1000))

\* a is earlier than b, both normalized.
Earlier(a, b) == a.time < b.time \/ (a.time = b.time /\ a.millitm < b.millitm)

\* C17: for normalized a and b, CompareTime(a, b) is
\* (a.time - b.time) * 1000 + (a.millitm - b.millitm) as an int, and its
\* sign orders a and b as time does: negative when a is earlier, zero when
\* they are equal, positive when a is later.
C17_CompareTimeOrder ==
  (tlast.op = "CompareTime" /\ Normalized(TimeToModify) /\ Normalized(tlast.other))
    => (/\ tlast.ret < 0 <=> Earlier(TimeToModify, tlast.other)
        /\ tlast.ret = 0 <=> TimeToModify = tlast.other
        /\ tlast.ret > 0 <=> Earlier(tlast.other, TimeToModify)
        /\ (tlast.ret % 1000) = ((TimeToModify.millitm - tlast.other.millitm) % 1000)
        /\ (tlast.ret \div 1000) =
             (TimeToModify.time - tlast.other.time)
               + ((TimeToModify.millitm - tlast.other.millitm) \div 1000))

\* ============================================ ConstantFpsTimestampFromFile
\* FrameRate arguments of the constructor.
FrameRates == {0, 30}

\* (int)((1.0f/FrameRate)*1000.0f), for the rates above.
StepOf(FrameRate) == 1000 \div FrameRate

\* A call on the reader made by the constructor.
ScanInstall(s, c) ==
  /\ InstallReader(s, c)
  /\ UNCHANGED <<dvars, Mode, CurrentIndex, FrameSize, FrameBuffer, glast, gpre,
                 tvars>>

\* The constructor down to its loop: the test on FrameRate and the first
\* ReadTimestamp::GetNextTimestamp().
CtorBegin ==
  /\ pc = "begin"
  /\ \E FrameRate \in FrameRates :
       IF FrameRate <= 0
       THEN /\ InitialTime' = ZeroTime
            /\ TimeStep' = 1
            /\ EndTime' = ZeroTime
            /\ pc' = "done"
            /\ UNCHANGED <<rvars, dvars, gvars, tvars>>
       ELSE \E r \in {GetNextTimestamp(Reader)} :
              /\ ScanInstall(r.s, Call("GetNextTimestamp", NoTime, 0, r.ret))
              /\ IF ~r.ret
                 THEN /\ InitialTime' = ZeroTime
                      /\ TimeStep' = 1
                      /\ EndTime' = ZeroTime
                      /\ pc' = "done"
                 ELSE /\ InitialTime' = r.s.CurrentTimestamp
                      /\ TimeStep' = StepOf(FrameRate)
                      /\ pc' = "scan"
                      /\ UNCHANGED EndTime

\* One turn of while( ReadTimestamp::GetNextTimestamp() == true ).
CtorScan ==
  /\ pc = "scan"
  /\ \E r \in {GetNextTimestamp(Reader)} :
       /\ ScanInstall(r.s, Call("GetNextTimestamp", NoTime, 0, r.ret))
       /\ EndTime' = IF r.ret THEN r.s.CurrentTimestamp ELSE EndTime
       /\ pc' = IF r.ret THEN "scan" ELSE "done"
       /\ UNCHANGED <<InitialTime, TimeStep>>

\* No ConstantFpsTimestampFromFile is built.
NoScan ==
  /\ pc = "none"
  /\ InitialTime = ZeroTime
  /\ TimeStep = 0
  /\ EndTime = ZeroTime

\* The reader as its constructor leaves it.
ReaderNew ==
  /\ finOpen = FALSE
  /\ finPos = 0
  /\ finEof = FALSE
  /\ LineBuffer = EmptyLine
  /\ EndOfTimestampPosition = 0
  /\ CurrentTimestamp = ZeroTime
  /\ CurrentTimestampIsInitialized = FALSE
  /\ PreviousTimestamp = ZeroTime
  /\ PreviousTimestampPosInFile = <<-1, -1>>
  /\ DataBuffer = -1
  /\ curLine = 0
  /\ linesRead = 0
  /\ run = [scan |-> 0, nexts |-> 0, older |-> 0, rewound |-> FALSE,
            rewoundTwice |-> FALSE, again |-> FALSE, rawScan |-> -1,
            forward |-> TRUE, back |-> FALSE, backNext |-> FALSE, newer |-> 0,
            reopened |-> FALSE]
  /\ last = Call("new", NoTime, 0, TRUE)
  /\ pre = Before

\* ------------------------------------------------------------ the reader
\* A new reader over any timestamp file; the DataFile object is left alone.
Init ==
  /\ \E f \in Files : file = WithData(f)
  /\ terminated \in BOOLEAN
  /\ (Len(file) = 0 => terminated)
  /\ isRaw = FALSE
  /\ finIsPipe = FALSE
  /\ payload = [i \in 1..Len(file) |-> Payload(-1, -1)]
  /\ ReaderNew
  /\ OpenCompressedVersionFirst = FALSE
  /\ plainExists = FALSE
  /\ plainLen = 0
  /\ zExists = FALSE
  /\ zLen = 0
  /\ DataFileNew
  /\ dpre = DBefore
  /\ Mode = "SimpleFrameMode"
  /\ FrameSize = 1
  /\ RawNew
  /\ TimeToModify = ZeroTime
  /\ TimeNew
  /\ NoScan

Next ==
  \/ DoReinit
  \/ DoClose
  \/ DoGetNextTimestamp
  \/ DoGetPreviousTimestamp
  \/ DoRewind
  \/ DoGetDataForTimestamp

Spec == Init /\ [][Next]_vars

\* ---------------------------------------------------------- the DataFile
\* A new DataFile over any files on disk; the reader is left alone.
InitDF ==
  /\ file = <<>>
  /\ terminated = TRUE
  /\ isRaw = FALSE
  /\ finIsPipe = FALSE
  /\ payload = <<>>
  /\ ReaderNew
  /\ OpenCompressedVersionFirst \in BOOLEAN
  /\ plainExists \in BOOLEAN
  /\ plainLen \in (IF plainExists THEN PlainLens ELSE {0})
  /\ zExists \in BOOLEAN
  /\ zLen \in (IF zExists THEN StreamLens ELSE {0})
  /\ DataFileNew
  /\ dpre = DBefore
  /\ Mode = "SimpleFrameMode"
  /\ FrameSize = 1
  /\ RawNew
  /\ TimeToModify = ZeroTime
  /\ TimeNew
  /\ NoScan

NextDF ==
  \/ DoOpen
  \/ DoDataFileClose
  \/ DoRead
  \/ DoWrite
  \/ DoSeek
  \/ DoTell
  \/ DoDataFileRewind

SpecDF == InitDF /\ [][NextDF]_vars

\* ---------------------------------------------- the ReadTimestampRawFile
\* Timestamp files of a raw reader: two lines, each with a payload.
RawIndexes ==
  {[lines |-> <<RecLine(TimeB(1, 0), 1), RecLine(TimeB(1, 200), 2)>>,
    payload |-> <<p, q>>] :
     p \in {Payload(-1, -1), Payload(0, 2), Payload(2, 1)},
     q \in {Payload(2, 0), Payload(2, -1)}}
  \cup {[lines |-> <<JunkLine(1), RecLine(TimeB(1, 0), 2)>>,
         payload |-> <<Payload(-1, -1), Payload(0, 2)>>]}

\* Those read together with a raw file.
FramedIndexes ==
  {x \in RawIndexes : x.payload \in {<<Payload(0, 2), Payload(2, 0)>>,
                                      <<Payload(2, 1), Payload(2, -1)>>}}

\* A new reader, a ReadTimestampFile or a ReadTimestampRawFile, over a
\* timestamp file (a plain file or a .7z sibling read through a pipe); the
\* raw file is not looked at.
InitIdx ==
  /\ \E x \in RawIndexes : file = x.lines /\ payload = x.payload
  /\ terminated \in BOOLEAN
  /\ isRaw \in BOOLEAN
  /\ finIsPipe \in BOOLEAN
  /\ ReaderNew
  /\ OpenCompressedVersionFirst = FALSE
  /\ plainExists = FALSE
  /\ plainLen = 0
  /\ zExists = FALSE
  /\ zLen = 0
  /\ DataFileNew
  /\ dpre = DBefore
  /\ Mode \in ReadingModes
  /\ FrameSize = 1
  /\ RawNew
  /\ TimeToModify = ZeroTime
  /\ TimeNew
  /\ NoScan

NextIdx ==
  \/ DoRawReinit
  \/ DoReinit
  \/ DoGetNextTimestamp
  \/ DoGetCurrentData

SpecIdx == InitIdx /\ [][NextIdx]_vars

\* A new ReadTimestampRawFile over a plain timestamp file and a raw file that
\* is a plain file, a .7z sibling read through a pipe, or absent.
InitRaw ==
  /\ \E x \in FramedIndexes : file = x.lines /\ payload = x.payload
  /\ terminated = TRUE
  /\ isRaw = TRUE
  /\ finIsPipe = FALSE
  /\ ReaderNew
  /\ OpenCompressedVersionFirst = FALSE
  /\ plainExists \in BOOLEAN
  /\ plainLen \in (IF plainExists THEN PlainLens ELSE {0})
  /\ zExists \in (IF plainExists THEN {FALSE} ELSE BOOLEAN)
  /\ zLen \in (IF zExists THEN {70000} ELSE {0})
  /\ DataFileNew
  /\ dpre = DBefore
  /\ Mode \in ReadingModes
  /\ FrameSize \in FrameSizes
  /\ RawNew
  /\ TimeToModify = ZeroTime
  /\ TimeNew
  /\ NoScan

\* No call follows one that ended the process.
NextRaw ==
  \/ ~fault /\ DoRawReinit
  \/ ~fault /\ DoGetNextTimestamp
  \/ ~fault /\ DoGetCurrentData
  \/ ~fault /\ DoGetFrame

SpecRaw == InitRaw /\ [][NextRaw]_vars

\* ------------------------------------------------- the TimeB operators
\* A normalized TimeB; the objects of the other specifications are left alone.
InitTime ==
  /\ file = <<>>
  /\ terminated = TRUE
  /\ isRaw = FALSE
  /\ finIsPipe = FALSE
  /\ payload = <<>>
  /\ ReaderNew
  /\ OpenCompressedVersionFirst = FALSE
  /\ plainExists = FALSE
  /\ plainLen = 0
  /\ zExists = FALSE
  /\ zLen = 0
  /\ DataFileNew
  /\ dpre = DBefore
  /\ Mode = "SimpleFrameMode"
  /\ FrameSize = 1
  /\ RawNew
  /\ TimeToModify \in NormalTimes
  /\ TimeNew
  /\ NoScan

NextTime ==
  \/ DoPlusAssign
  \/ DoMinusAssign
  \/ DoCompareTime

SpecTime == InitTime /\ [][NextTime]_vars

\* ------------------------------ the ConstantFpsTimestampFromFile constructor
\* The constructor starts on a new reader over any timestamp file; EndTime is
\* not set before the loop, so it starts with whatever the memory holds.
InitScan ==
  /\ \E f \in Files : file = WithData(f)
  /\ terminated \in BOOLEAN
  /\ (Len(file) = 0 => terminated)
  /\ isRaw = FALSE
  /\ finIsPipe = FALSE
  /\ payload = [i \in 1..Len(file) |-> Payload(-1, -1)]
  /\ ReaderNew
  /\ OpenCompressedVersionFirst = FALSE
  /\ plainExists = FALSE
  /\ plainLen = 0
  /\ zExists = FALSE
  /\ zLen = 0
  /\ DataFileNew
  /\ dpre = DBefore
  /\ Mode = "SimpleFrameMode"
  /\ FrameSize = 1
  /\ RawNew
  /\ TimeToModify = ZeroTime
  /\ TimeNew
  /\ pc = "begin"
  /\ InitialTime = ZeroTime
  /\ TimeStep = 0
  /\ EndTime \in {ZeroTime, TimeB(1, 0)}

NextScan ==
  \/ CtorBegin
  \/ CtorScan

\* The constructor is sequential code: it runs on as long as it can.
SpecScan == InitScan /\ [][NextScan]_vars /\ WF_vars(NextScan)

\* ------------------------------------------------------------- properties
Searched == last.op = "GetDataForTimestamp"

\* The requested timestamp of the latest search, in ms.
Asked == Ms(last.target)

StampMs(i) == Ms(StampOf(i))

\* Records i and j follow one another in the file (only lines without a
\* timestamp may lie between them).
Consecutive(i, j) ==
  /\ i \in Records
  /\ j \in Records
  /\ i < j
  /\ \A k \in Records : ~(i < k /\ k < j)

LastRecord == CHOOSE i \in Records : \A k \in Records : k <= i

StrictlyIncreasing == \A i, j \in Records : i < j => StampMs(i) < StampMs(j)

\* Every line carries a timestamp.
WellFormed == NumLines >= 1 /\ Records = 1..NumLines

\* What DataBuffer lets the caller read: the line buffer from DataBuffer on.
Exposed == [line |-> LineBuffer, from |-> DataBuffer]

PayloadOf(i) == [line |-> file[i], from |-> PrefixLen]

\* C1: a search on a fresh reader for a target strictly between two consecutive
\* records A < B, more than the tolerance after A, returns false.
C1_MissReturnsFalse ==
  (/\ Searched
   /\ pre.fresh
   /\ \E i, j \in Records :
        /\ Consecutive(i, j)
        /\ StampMs(i) < Asked
        /\ Asked < StampMs(j)
        /\ Asked - StampMs(i) > last.tol)
    => ~last.ret

\* C2: a search on a fresh reader for a target strictly between two consecutive
\* records A < B (B not an unterminated last line), at most the tolerance after
\* A, returns true with A as the current record and A's line in the buffer.
C2_HitSnapsBack ==
  \A i, j \in Records :
    (/\ Searched
     /\ pre.fresh
     /\ Consecutive(i, j)
     /\ ~(j = NumLines /\ ~terminated)
     /\ StampMs(i) < Asked
     /\ Asked < StampMs(j)
     /\ Asked - StampMs(i) <= last.tol)
      => (/\ last.ret
          /\ CurrentTimestampIsInitialized
          /\ CurrentTimestamp = StampOf(i)
          /\ LineBuffer = file[i])

\* C3: whenever a search returns true, the reader has a valid current record
\* and it is the most recent record at or before the target.
C3_SearchPostcondition ==
  (Searched /\ last.ret)
    => (/\ CurrentTimestampIsInitialized
        /\ \E i \in Records : CurrentTimestamp = StampOf(i)
        /\ Ms(CurrentTimestamp) <= Asked
        /\ \A k \in Records : StampMs(k) <= Asked => StampMs(k) <= Ms(CurrentTimestamp))

\* C4: on a file with strictly increasing timestamps, a search for the
\* timestamp of a record, by a reader that is fresh or whose current record is
\* at or before the target, returns true, makes that record current and
\* exposes the payload of its line.
C4_ExactMatch ==
  \A k \in Records :
    (/\ Searched
     /\ StrictlyIncreasing
     /\ pre.fresh \/ (pre.init /\ Ms(pre.cur) <= Asked)
     /\ StampMs(k) = Asked)
      => (/\ last.ret
          /\ CurrentTimestampIsInitialized
          /\ CurrentTimestamp = last.target
          /\ Exposed = PayloadOf(k))

\* C5: on a well-formed file of N records read from a fresh reader, the k-th
\* GetNextTimestamp (k <= N) returns true and yields the k-th record, and the
\* (N+1)-th returns false and leaves the N-th record current.
C5_MonotonicScan ==
  (WellFormed /\ last.op = "GetNextTimestamp" /\ run.scan >= 1)
    => IF run.scan <= NumLines
         THEN /\ last.ret
              /\ CurrentTimestampIsInitialized
              /\ CurrentTimestamp = StampOf(run.scan)
         ELSE /\ ~last.ret
              /\ CurrentTimestampIsInitialized
              /\ CurrentTimestamp = StampOf(NumLines)

\* C6: with the last record L current, a search for a target after L by at
\* most 100 ms returns true and L stays current.
C6_GraceAccepts ==
  (/\ Searched
   /\ Records # {}
   /\ pre.open
   /\ pre.init
   /\ pre.line = LastRecord
   /\ 0 < Asked - StampMs(LastRecord)
   /\ Asked - StampMs(LastRecord) <= EndOfFileGraceMs)
    => (/\ last.ret
        /\ CurrentTimestampIsInitialized
        /\ CurrentTimestamp = StampOf(LastRecord))

\* C7: a search for a target more than 100 ms after the last record returns
\* false, whatever the state of the reader.
C7_GraceRejects ==
  (/\ Searched
   /\ Records # {}
   /\ Asked - StampMs(LastRecord) > EndOfFileGraceMs)
    => ~last.ret

\* C8: a search repeated at once with the same arguments after it returned
\* true returns true again, with the same current record and the same line.
C8_SearchIdempotent ==
  run.again
    => (/\ last.ret
        /\ CurrentTimestampIsInitialized
        /\ CurrentTimestamp = pre.cur
        /\ LineBuffer = pre.buf)

\* C9: right after two successive GetNextTimestamp calls that returned true,
\* Rewind returns true and puts the stream at the start of the older of the
\* two lines; a second Rewind right after it returns false.
C9_OneStepRewind ==
  /\ run.rewound => (last.ret /\ finPos = LineStart(run.older))
  /\ run.rewoundTwice => ~last.ret

\* C10: on an open pipe at position P with at least K bytes left, K > 0,
\* Seek(P + K, SEEK_SET) and Seek(K, SEEK_CUR) return 0, take exactly K
\* bytes from the stream and leave Tell at P + K, for distances beyond
\* DropBufferSize as for shorter ones.
SeekDistance ==
  IF dlast.whence = "SEEK_CUR" THEN dlast.offset ELSE dlast.offset - dpre.pos

C10_PipeForwardSeek ==
  ( /\ dlast.op = "Seek"
    /\ dpre.open
    /\ dpre.pipe
    /\ dlast.whence \in {"SEEK_SET", "SEEK_CUR"}
    /\ SeekDistance > 0
    /\ dpre.remaining >= SeekDistance )
  => ( /\ dlast.returned
       /\ dlast.ret = 0
       /\ streamPos = dpre.streamPos + SeekDistance
       /\ Tell(DF) = dpre.tell + SeekDistance )

\* The position a Seek with SEEK_SET or SEEK_CUR asks for.
SeekTarget ==
  IF dlast.whence = "SEEK_CUR" THEN dpre.pos + dlast.offset ELSE dlast.offset

\* The latest call was a Seek on an open pipe that asked for the end of the
\* stream or for a position behind the current one.
PipeSeekViolation ==
  /\ dlast.op = "Seek"
  /\ dpre.open
  /\ dpre.pipe
  /\ \/ dlast.whence = "SEEK_END"
     \/ dlast.whence \in {"SEEK_SET", "SEEK_CUR"} /\ SeekTarget < dpre.pos

\* C11: on an open pipe, a Seek with SEEK_END, or with SEEK_SET or SEEK_CUR
\* to a position behind the current one, returns a value other than 0,
\* takes no byte from the stream and leaves Tell as it was.
C11_PipeSeekViolation ==
  PipeSeekViolation
    => (/\ dlast.returned
        /\ dlast.ret # 0
        /\ streamPos = dpre.streamPos
        /\ Tell(DF) = dpre.tell)

\* A pipe that has delivered bytes refused a Seek back to an earlier
\* position with EBADF.
C11_Witness ==
  /\ PipeSeekViolation
  /\ dlast.whence = "SEEK_SET"
  /\ dpre.pos > 0
  /\ dlast.ret = EBADF
  /\ Tell(DF) = dpre.pos

\* C12: while a plain file is open for reading, whatever calls were made
\* on it, Tell is the offset of the underlying handle.
C12_PlainTellIsOffset ==
  (InternalFile /\ ~IsPipe /\ openMode = "READ_MODE")
    => Tell(DF) = streamPos

\* The line of the k-th record of the timestamp file.
RecordNo(k) == CHOOSE i \in Records : Cardinality({j \in Records : j <= i}) = k

\* C15: after ReadTimestampRawFile::Reinit on a timestamp file that can be
\* opened, plain or read through a pipe, whatever its first line holds, the
\* k-th GetNextTimestamp that follows returns the k-th record of the file,
\* as it does after the Reinit of the base reader.
C15_RawReinitKeepsIteration ==
  (run.rawScan >= 1 /\ run.rawScan <= Cardinality(Records))
    => (last.ret /\ CurrentTimestamp = StampOf(RecordNo(run.rawScan)))

\* C18: Write on a source opened in write mode returns the number of
\* elements written, and returns 0 only when nothing was written or the
\* source is not open.
C18_WriteReturnsCount ==
  (dlast.op = "Write" /\ dpre.open /\ openMode = "WRITE_MODE")
    => (/\ dlast.ret = (streamPos - dpre.streamPos) \div dlast.size
        /\ dlast.ret = 0 => streamPos = dpre.streamPos)

\* The latest call was an Open that returned false.
OpenFailed == dlast.op = "Open" /\ ~dlast.ret

\* C19 (as stated): whenever Open returns false, whatever the cause (no
\* file and no .7z sibling, unsupported mode, null name, or a source that
\* has not been closed), the source is not open afterwards: IsOpen() is
\* false and Tell() returns -1.
C19_FailedOpenLeavesClosed ==
  OpenFailed => (~InternalFile /\ Tell(DF) = -1)

\* C19 (amended): an Open on a closed source that returns false leaves it
\* closed, with Tell() = -1; an Open on an open source returns false and
\* leaves the source open where it was.
C19_FailedOpenLeavesAsItWas ==
  /\ (OpenFailed /\ ~dpre.open) => (~InternalFile /\ Tell(DF) = -1)
  /\ (dlast.op = "Open" /\ dpre.open)
       => (/\ ~dlast.ret
           /\ InternalFile
           /\ IsPipe = dpre.pipe
           /\ streamPos = dpre.streamPos
           /\ Tell(DF) = dpre.tell)

C19_Witness ==
  /\ OpenFailed
  /\ dpre.open
  /\ dpre.pos > 0
  /\ InternalFile
  /\ Tell(DF) = dpre.tell

\* C33: while a pipe is open, whatever Read and Seek calls were made since
\* it was spawned, Reads that end inside an element and forward Seeks that
\* fail on a short read included, Tell is the number of bytes taken from the
\* stream of the pipe.
C33_PipeTellIsConsumed ==
  (InternalFile /\ IsPipe /\ ~fault) => Tell(DF) = streamPos

\* C34: a forward Seek on a pipe, whatever the distance, distances of 2^31
\* bytes and more included, asks fread for a size between 1 and the size of
\* the scratch buffer, and ends with Pos at the target when the stream
\* holds that many bytes.
C34_ForwardSeekAnyDistance ==
  ( /\ dlast.op = "Seek"
    /\ dpre.open
    /\ dpre.pipe
    /\ dlast.whence \in {"SEEK_SET", "SEEK_CUR"}
    /\ SeekDistance >= 1 )
  => ( /\ ChunkSize(dpre.pos, SeekTarget) \in 1..DropBufferSize
       /\ dpre.remaining >= SeekDistance
            => (dlast.returned /\ dlast.ret = 0 /\ Pos = SeekTarget) )

\* The same for the distances below 2^31 bytes.
ForwardSeekShortDistance ==
  SeekDistance < IntRange \div 2 => C34_ForwardSeekAnyDistance

\* The latest call asked an open pipe that had delivered bytes to go back to
\* the start of the stream, with Seek( 0, SEEK_SET ) or with Rewind().
RewindToStart ==
  /\ dpre.open
  /\ dpre.pipe
  /\ dpre.pos > 0
  /\ \/ dlast.op = "Rewind"
     \/ dlast.op = "Seek" /\ dlast.whence = "SEEK_SET" /\ dlast.offset = 0

\* The source is an open pipe at the start of its stream.
AtStartOfPipe ==
  /\ InternalFile
  /\ IsPipe
  /\ Tell(DF) = 0
  /\ streamPos = 0

\* C27: a pipe at a position P > 0 that is asked for position 0, through
\* Seek( 0, SEEK_SET ) as well as through Rewind(), is closed and spawned
\* again: afterwards the source is open as a pipe, Tell is 0 and the next
\* read takes the first byte of the stream.
C27_PipeRewindToStart == RewindToStart => AtStartOfPipe

\* Rewind() alone does so.
RewindCallRespawns == (RewindToStart /\ dlast.op = "Rewind") => AtStartOfPipe

\* ------------------------------------------- the reader past its last line
\* The members of the reader that a call can change.
readerState ==
  <<finOpen, finPos, finEof, LineBuffer, EndOfTimestampPosition, CurrentTimestamp,
    CurrentTimestampIsInitialized, PreviousTimestamp, PreviousTimestampPosInFile>>

\* C21: once the end of a file that holds a record has been reached by
\* GetNextTimestamp calls and searches alone, the current record is still
\* marked valid and is the last record of the file.
C21_ExhaustionKeepsLastRecord ==
  (run.forward /\ finOpen /\ finEof /\ Records # {})
    => (/\ CurrentTimestampIsInitialized
        /\ CurrentTimestamp = StampOf(LastRecord))

\* The latest call is a GetNextTimestamp that reported the end of the file
\* (it yielded no new record) on a reader that holds a record.
ReportedEnd ==
  /\ last.op = "GetNextTimestamp"
  /\ finOpen
  /\ finEof
  /\ pre.eof \/ ~last.ret
  /\ CurrentTimestampIsInitialized
\* C22: on every file that holds at least one record, with or without a
\* newline at the end of its last line, the constructor of
\* ConstantFpsTimestampFromFile, which calls GetNextTimestamp until it
\* returns false, comes to its end.
C22_ScanTerminates == (pc = "begin" /\ Records # {}) ~> (pc = "done")


\* C23: once GetNextTimestamp has reported the end of the file on a reader
\* that holds a record, a further GetNextTimestamp returns the same value
\* and changes neither the current record, the previous record, the position
\* history nor the file position.
C23_EndOfStreamIdempotent ==
  [][(ReportedEnd /\ last'.op = "GetNextTimestamp")
       => (last'.ret = last.ret /\ UNCHANGED readerState)]_vars

C25_RewindNeedsTwoLines ==
  [][(last'.op = "Rewind" /\ linesRead < 2)
       => (~last'.ret /\ UNCHANGED readerState)]_vars

\* C26: after two successive GetNextTimestamp calls that returned true with
\* records A and then B (lines without a timestamp may lie between them),
\* GetPreviousTimestamp returns true and makes A the current record, and a
\* GetNextTimestamp that follows yields B again.
C26_PreviousThenNext ==
  /\ (run.back /\ run.older # run.newer)
       => (/\ last.ret
           /\ CurrentTimestampIsInitialized
           /\ curLine = run.older
           /\ CurrentTimestamp = StampOf(run.older))
  /\ (run.backNext /\ run.older # run.newer)
       => (/\ last.ret
           /\ curLine = run.newer
           /\ CurrentTimestamp = StampOf(run.newer))
\* C28: Reinit on a reader whose file is already open, over a plain file or
\* a pipe, wherever the reader stands, leaves no current record, no previous
\* record and an empty position history, and the GetNextTimestamp calls that
\* follow return the records of the file from the first one on.
C28_ReinitRestarts ==
  /\ (run.reopened /\ run.scan = 0)
       => (/\ ~CurrentTimestampIsInitialized
           /\ PreviousTimestamp = ZeroTime
           /\ PreviousTimestampPosInFile = <<-1, -1>>)
  /\ (run.reopened /\ run.scan >= 1 /\ run.scan <= Cardinality(Records))
       => (last.ret /\ CurrentTimestamp = StampOf(RecordNo(run.scan)))

\* The same, for what follows the Reinit alone.
ReinitRestartsScan ==
  (run.reopened /\ run.scan >= 1 /\ run.scan <= Cardinality(Records))
    => (last.ret /\ CurrentTimestamp = StampOf(RecordNo(run.scan)))

\* The scan after a Reinit over a plain file.
ReinitRestartsPlainScan == ~finIsPipe => ReinitRestartsScan


\* C30: whenever GetDataForTimestamp or GetCurrentData returns true with a
\* valid current record, the payload it exposes is that of the line the
\* current timestamp was parsed from, also when lines without a timestamp
\* follow that record or the end of the file was reached after it.
C30_PayloadOfCurrentLine ==
  (/\ last.op \in {"GetDataForTimestamp", "GetCurrentData"}
   /\ last.ret
   /\ CurrentTimestampIsInitialized)
    => Exposed = PayloadOf(curLine)

\* The latest call was a search that returned false on an open reader, not
\* at the end of its file, whose current record was after the target.
TooEarlyMiss ==
  /\ Searched
  /\ ~last.ret
  /\ pre.open /\ ~pre.eof /\ pre.init
  /\ CompareTime(last.target, pre.cur) < 0

====
